---- MODULE Spec2Model ----
(***************************************************************************)
(* Model of morphman's area manipulation (src/morphman/manipulate_area.py):*)
(* read_command_line -> manipulate_area -> change_area -> get_factor.      *)
(*                                                                         *)
(* Numbers are exact.  A float of the program is modelled by a "value"     *)
(* a*sqrt(q) + b with rational a, q, b (or NaN), which is closed under the *)
(* operations the code applies to a factor: blending with the transition   *)
(* weight, 1 - factor, scaling a coordinate offset or a radius.  Rounding  *)
(* of IEEE doubles is not modelled.                                        *)
(*                                                                         *)
(* The centerline to change has N samples; sample id (0-based, as in the   *)
(* code) lies at (2*id, 0).        Sequences are 1-based: element id of a  *)
(* numpy array is At(array, id).                                           *)
(***************************************************************************)
EXTENDS Integers, Sequences, FiniteSets, TLC

----------------------------------------------------------------------------
(* Rational numbers <<n, d>>, d > 0, in lowest terms.                      *)

Abs(x) == IF x < 0 THEN -x ELSE x

RECURSIVE Gcd(_, _)
Gcd(x, y) == IF y = 0 THEN x ELSE Gcd(y, x % y)

Rat(n, d) ==
    LET g == Gcd(Abs(n), Abs(d))
        s == IF d < 0 THEN -1 ELSE 1
    IN  <<(s * n) \div g, (s * d) \div g>>

Zero == <<0, 1>>
One == <<1, 1>>
FromInt(x) == <<x, 1>>

RAdd(x, y) == Rat(x[1] * y[2] + y[1] * x[2], x[2] * y[2])
RSub(x, y) == Rat(x[1] * y[2] - y[1] * x[2], x[2] * y[2])
RMul(x, y) ==
    LET g1 == Gcd(Abs(x[1]), y[2])
        g2 == Gcd(Abs(y[1]), x[2])
    IN  IF x[1] = 0 \/ y[1] = 0 THEN Zero
        ELSE <<(x[1] \div g1) * (y[1] \div g2), (x[2] \div g2) * (y[2] \div g1)>>
RInv(x) == Rat(x[2], x[1])
RDiv(x, y) == RMul(x, RInv(y))
\* x[1] * y[2] - y[1] * x[2] after the common factors are taken out
RCompare(x, y) ==
    LET gn == Gcd(Abs(x[1]), Abs(y[1]))
        gd == Gcd(x[2], y[2])
        n == IF gn = 0 THEN 1 ELSE gn
    IN  (x[1] \div n) * (y[2] \div gd) - (y[1] \div n) * (x[2] \div gd)
RLt(x, y) == RCompare(x, y) < 0
RLe(x, y) == RCompare(x, y) <= 0

\* x ** e for an integer exponent e (x # 0 when e < 0)
RECURSIVE RPow(_, _)
RPow(x, e) ==
    IF e = 0 THEN One
    ELSE IF e < 0 THEN RPow(RInv(x), -e)
    ELSE RMul(x, RPow(x, e - 1))

\* integer square root by bisection: the largest s with s*s <= x
RECURSIVE IsqrtIn(_, _, _)
IsqrtIn(x, lo, hi) ==
    IF lo >= hi THEN lo
    ELSE LET mid == (lo + hi + 1) \div 2
         IN  IF mid * mid <= x THEN IsqrtIn(x, mid, hi) ELSE IsqrtIn(x, lo, mid - 1)

Isqrt(x) == IsqrtIn(x, 0, IF x < 46340 THEN x ELSE 46340)
IsSquare(x) == Isqrt(x) * Isqrt(x) = x

----------------------------------------------------------------------------
(* Values a*sqrt(q) + b, and NaN.  Normal form: a = 0 implies q = 1.       *)

Val(a, q, b) ==
    IF a = Zero \/ q = Zero THEN [nan |-> FALSE, a |-> Zero, q |-> One, b |-> b]
    ELSE IF q = One THEN [nan |-> FALSE, a |-> Zero, q |-> One, b |-> RAdd(a, b)]
    ELSE [nan |-> FALSE, a |-> a, q |-> q, b |-> b]

NaN == [nan |-> TRUE, a |-> Zero, q |-> One, b |-> Zero]
VRat(x) == Val(Zero, One, x)
VOne == VRat(One)

\* numpy sqrt of a rational: NaN below zero
VSqrt(x) ==
    IF x[1] < 0 THEN NaN
    ELSE IF IsSquare(x[1]) /\ IsSquare(x[2]) THEN VRat(<<Isqrt(x[1]), Isqrt(x[2])>>)
    ELSE Val(One, x, Zero)

\* v * m + c for rationals m, c
VLin(v, m, c) ==
    IF v.nan THEN NaN
    ELSE IF m = Zero THEN VRat(c)
    ELSE Val(RMul(v.a, m), v.q, RAdd(RMul(v.b, m), c))

VScale(v, m) == IF v.nan THEN NaN ELSE Val(RMul(v.a, m), v.q, RMul(v.b, m))
VAddRat(v, c) == IF v.nan THEN NaN ELSE Val(v.a, v.q, RAdd(v.b, c))

\* v + w for two values over the same radical (or one of them rational)
VAdd(v, w) ==
    IF v.nan \/ w.nan THEN NaN
    ELSE IF w.a = Zero THEN Val(v.a, v.q, RAdd(v.b, w.b))
    ELSE IF v.a = Zero THEN Val(w.a, w.q, RAdd(v.b, w.b))
    ELSE Val(RAdd(v.a, w.a), v.q, RAdd(v.b, w.b))

\* the sign of a*sqrt(q) + b; comparisons with NaN are false, as in IEEE
Sgn(x) == IF x[1] > 0 THEN 1 ELSE IF x[1] < 0 THEN -1 ELSE 0

VSign(v) ==
    IF v.a = Zero THEN Sgn(v.b)
    ELSE IF v.b = Zero THEN Sgn(v.a)
    ELSE IF Sgn(v.a) = Sgn(v.b) THEN Sgn(v.a)
    ELSE LET c == RDiv(v.b, v.a)            \* c < 0: compare sqrt(q) with -c
             c2 == RMul(c, c)
         IN  IF RLt(c2, v.q) THEN Sgn(v.a)
             ELSE IF RLt(v.q, c2) THEN Sgn(v.b)
             ELSE 0

VPositive(v) == ~v.nan /\ VSign(v) = 1
\* v < w
VLess(v, w) == ~v.nan /\ ~w.nan /\ VSign(VAdd(w, VScale(v, <<-1, 1>>))) = 1

----------------------------------------------------------------------------
(* Inputs of one call.  They are chosen in Init and never change.          *)

VARIABLES
    method,                 \* method
    region_of_interest,     \* region_of_interest
    region_points,          \* len(region_points); NoPoints when region_points is None
    beta2,                  \* 2 * beta (beta is a multiple of 1/2)
    ratio,                  \* [given |-> FALSE] for None, else [given |-> TRUE, val |-> rational]
    percentage,             \* percentage (an integer)
    area_in,                \* the CenterlineSectionArea array of line_to_change
    voronoi,                \* the main Voronoi region: a sequence of [pos, r]
    diverging_centerline,   \* [none |-> TRUE] for None, else the list of attachment points
    diverging_voronoi       \* voronoi_regions[2:]: a list of [none, pts]

(* Working state of the call.                                              *)
VARIABLES
    pc,                     \* position in the program
    err,                    \* the exception that ended the call, "" if none
    steps,                  \* the computations performed so far (history)
    area,                   \* the smoothed area array, scaled by SmoothScale^2
    k,                      \* k of get_factor
    trans,                  \* trans of get_factor
    factor,                 \* factor of get_factor
    m,                      \* m of change_area: the size of radius_array
    i,                      \* loop variable i of change_area; Unbound before the first iteration
    j,                      \* loop variable j of change_area
    count,                  \* count of change_area
    v2,                     \* the displacement of the current branch
    tmp_ids,                \* tmp_id found for each main point and each branch (history)
    voronoi_points,         \* voronoi_points: InsertNextPoint appends
    radius_array,           \* radius_array: SetTuple1 writes at an index
    cell_array              \* cell_array: the point id of each vertex cell

inputs == <<method, region_of_interest, beta2, ratio, percentage, area_in,
            voronoi, diverging_centerline, diverging_voronoi>>
factor_vars == <<area, k, trans, factor>>
cloud_vars == <<m, i, j, count, v2, tmp_ids, voronoi_points, radius_array, cell_array>>
vars == <<inputs, region_points, pc, err, steps, factor_vars, cloud_vars>>

\* element id (0-based) of an array
At(array, id) == array[id + 1]

\* a sequence given as a function, as the tuple of its elements
AsList(f) == f \o <<>>

N == Len(area_in)
NoPoints == -1
Unbound == -1

----------------------------------------------------------------------------
(* Bounds of the model.                                                    *)

MaxN == 7               \* every centerline length 1..MaxN is explored
MaxProfile == 2         \* number of area profiles
MaxPts == 2             \* largest main Voronoi region
MaxBranches == 2        \* largest number of diverging branches
MaxBranchPts == 2       \* largest diverging Voronoi region

\* lengths beyond MaxN: the shortest with k = 2 and with k = 3, and the 101 samples of the blending scenario
RampLengths == {15, 26, 101}
Lengths == (1..MaxN) \cup RampLengths

Methods == {"variation", "stenosis", "area"}
Modes == {"manual", "commandline", "first_line"}

----------------------------------------------------------------------------
(* get_factor: the transition array (lines 142-158).                       *)

\* int(round(n * 0.10, 0)): Python rounds a half to the even integer
Round10(n) ==
    LET q == n \div 10
        r == n % 10
    IN  IF r > 5 \/ (r = 5 /\ q % 2 = 1) THEN q + 1 ELSE q

\* mutant: the samples of np.linspace(start, stop, num, endpoint=False)
LinspaceOpen(start, stop, num) ==
    AsList([x \in 1..num |-> RAdd(FromInt(start), Rat((x - 1) * (stop - start), num))])

\* np.linspace(start, stop, num).tolist() for integers start, stop
Linspace(start, stop, num) ==
    AsList([x \in 1..num |->
        IF num = 1 THEN FromInt(start)
        ELSE RAdd(FromInt(start), Rat((x - 1) * (stop - start), num - 1))])

\* np.zeros(num).tolist()
Zeros(num) == AsList([x \in 1..num |-> Zero])

\* mutant: the method is not looked at
BlendsBothEndsAnyMethod(roi, meth) == roi \in {"manual", "commandline"}

\* the condition of line 143
BlendsBothEnds(roi, meth) ==
    roi \in {"manual", "commandline"} /\ meth \in {"area", "variation"}

\* k after lines 143-148
KBothEnds(roi, meth, len) == IF BlendsBothEnds(roi, meth) THEN Round10(len) ELSE 0

\* trans after lines 151-152
TransBothEnds(roi, meth, len) ==
    LET kk == KBothEnds(roi, meth, len)
        linear == len - kk * 2
    IN  Linspace(1, 0, kk) \o Zeros(linear) \o Linspace(0, 1, kk)

\* mutant: the trailing ramp replaces the last k samples of an array that
\* already lost 2k of them
TransFirstLineShort(len) ==
    LET kk == Round10(len)
        linear == len - kk * 2
    IN  Zeros(linear) \o Linspace(0, 1, kk)

\* trans after lines 155-158
TransFirstLine(len) ==
    LET kk == Round10(len)
        linear == len - kk
    IN  Zeros(linear) \o Linspace(0, 1, kk)

KOf(roi, meth, len) ==
    IF roi = "first_line" THEN Round10(len) ELSE KBothEnds(roi, meth, len)

TransOf(roi, meth, len) ==
    IF roi = "first_line" THEN TransFirstLine(len) ELSE TransBothEnds(roi, meth, len)

----------------------------------------------------------------------------
(* get_factor: area, smoothing and the raw factor (lines 134-140, 160-187) *)

\* the sum of seq[lo..hi], by halves
RECURSIVE RSumRange(_, _, _)
RSumRange(seq, lo, hi) ==
    IF lo > hi THEN Zero
    ELSE IF lo = hi THEN seq[lo]
    ELSE LET mid == (lo + hi) \div 2
         IN  RAdd(RSumRange(seq, lo, mid), RSumRange(seq, mid + 1, hi))

RSum(seq) == RSumRange(seq, 1, Len(seq))

Elements(seq) == {seq[x] : x \in 1..Len(seq)}

\* area.max() and area.min()
RMaxOf(seq) == LET all == Elements(seq) IN CHOOSE v \in all : \A w \in all : RLe(w, v)
RMinOf(seq) == LET all == Elements(seq) IN CHOOSE v \in all : \A w \in all : RLe(v, w)

\* gaussian_filter(area, 5): a symmetric kernel of positive weights that sum to
\* 1, applied with scipy's default mode "reflect" (the edge sample is repeated).
\* The binomial weights 1/4, 1/2, 1/4 stand for the Gaussian weights.
GaussianFilter(a) ==
    AsList([x \in 1..Len(a) |->
        LET left == IF x = 1 THEN a[x] ELSE a[x - 1]
            right == IF x = Len(a) THEN a[x] ELSE a[x + 1]
        IN  RMul(RAdd(RAdd(left, right), RMul(FromInt(2), a[x])), <<1, 4>>)])

\* lines 138-139
SmoothTwice(a) == GaussianFilter(GaussianFilter(a))

\* np.mean(area), line 140
MeanArea(a) == RDiv(RSum(a), FromInt(Len(a)))

\* x ** (b2 / 2) for a positive rational x
PowHalf(x, b2) ==
    IF b2 % 2 = 0 THEN VRat(RPow(x, b2 \div 2)) ELSE VSqrt(RPow(x, b2))

\* mutant: the identity part of the blend is left out
BlendWithoutIdentity(raw, tr) ==
    AsList([x \in 1..Len(tr) |-> VScale(raw[x], RSub(One, tr[x]))])

\* factor_ * (1 - trans) + trans, elementwise
Blend(raw, tr) ==
    AsList([x \in 1..Len(tr) |-> VAdd(VScale(raw[x], RSub(One, tr[x])), VRat(tr[x]))])

\* R_old of line 164
ROld(a) == RDiv(RMaxOf(a), RMinOf(a))

ExpRange == -1..3
\* math.log(r) / math.log(rold) for r a power of rold with exponent in ExpRange
LogQuotient(r, rold) == CHOOSE e \in ExpRange : RPow(rold, e) = r

\* mutant: the beta of the caller is kept
SolvedBeta2OfCaller(r, rold) == beta2

\* beta of line 165, doubled
SolvedBeta2(r, rold) == LogQuotient(r, rold) - 1

\* mutant: area / mean_area ** beta, the power taken of the mean alone
VariationFactorOfMean(a, b2, tr) ==
    LET mean_area == MeanArea(a)
    IN  Blend([x \in 1..Len(a) |->
                  VScale(PowHalf(RInv(mean_area), b2), a[x])], tr)

\* mutant: the quotient is inverted, (mean_area / area) ** beta
VariationFactorInverted(a, b2, tr) ==
    LET mean_area == MeanArea(a)
    IN  Blend([x \in 1..Len(a) |-> PowHalf(RDiv(mean_area, a[x]), b2)], tr)

\* lines 166-170
VariationFactor(a, b2, tr) ==
    LET mean_area == MeanArea(a)
    IN  Blend([x \in 1..Len(a) |-> PowHalf(RDiv(a[x], mean_area), b2)], tr)

\* sin(pi * num / den) for the angles whose sine is a*sqrt(q) + b
SinPi(num, den) ==
    LET t == IF den = 0 THEN Zero ELSE Rat(num, den)
    IN  CASE t \in {<<0, 1>>, <<1, 1>>} -> VRat(Zero)
          [] t \in {<<1, 6>>, <<5, 6>>} -> VRat(<<1, 2>>)
          [] t \in {<<1, 4>>, <<3, 4>>} -> Val(<<1, 2>>, <<2, 1>>, Zero)
          [] t \in {<<1, 3>>, <<2, 3>>} -> Val(<<1, 2>>, <<3, 1>>, Zero)
          [] t = <<1, 2>> -> VOne

\* the lengths n for which every sample of np.linspace(0, np.pi, n) is such an angle
SinLengths == {1, 2, 3, 4, 5, 7}

\* lines 174-176: 1 - sin(t) * percentage * 0.01, t = np.linspace(0, np.pi, n)
StenosisOnePoint(len, pct, tr) ==
    Blend([x \in 1..len |-> VLin(SinPi(x - 1, len - 1), Rat(-pct, 100), One)], tr)

\* get_curvilinear_coordinate(line_to_change): the arc length at each sample
CurvilinearCoordinate(len) == AsList([x \in 1..len |-> FromInt(2 * (x - 1))])

\* lines 179-182; 0/0 is NaN in numpy
StenosisTwoPoints(a, tr) ==
    LET length == CurvilinearCoordinate(Len(a))
        lmax == RMaxOf(length)
        first == a[1]
        last == a[Len(a)]
        raw == [x \in 1..Len(a) |->
                   IF lmax = Zero THEN NaN
                   ELSE VSqrt(RDiv(RAdd(first, RMul(RSub(last, first), RDiv(length[x], lmax))),
                                   a[x]))]
    IN  Blend(raw, tr)

\* lines 186-187
AreaFactor(pct, tr) ==
    Blend([x \in 1..Len(tr) |-> VRat(RAdd(One, Rat(pct, 100)))], tr)

----------------------------------------------------------------------------
(* change_area: geometry.                                                  *)

\* line_to_change.GetPoint(id)
CenterlinePoint(id) == <<2 * id, 0>>

Dist2(p, id) ==
    (p[1] - CenterlinePoint(id)[1]) * (p[1] - CenterlinePoint(id)[1])
        + (p[2] - CenterlinePoint(id)[2]) * (p[2] - CenterlinePoint(id)[2])

\* locator.FindClosestPoint(point): a nearest sample; which one of several
\* equidistant samples is found is not specified
FindClosestPoint(p, len) ==
    {id \in 0..(len - 1) : \A other \in 0..(len - 1) : Dist2(p, id) <= Dist2(p, other)}

\* mutant: the offset is scaled by the factor itself
DisplacementByFactor(p, id, fac) ==
    [d \in 1..2 |-> VScale(At(fac, id), FromInt(CenterlinePoint(id)[d] - p[d]))]

\* v2 of lines 241-242 and 261-262: (centerline point - point) * (1 - factor[tmp_id])
Displacement(p, id, fac) ==
    [d \in 1..2 |-> VScale(VLin(At(fac, id), <<-1, 1>>, One),
                           FromInt(CenterlinePoint(id)[d] - p[d]))]

\* mutant: the displacement is subtracted
MovedBack(p, disp) == [d \in 1..2 |-> VAddRat(VScale(disp[d], <<-1, 1>>), FromInt(p[d]))]

\* np.asarray(point) + v2, lines 243 and 268
Moved(p, disp) == [d \in 1..2 |-> VAddRat(disp[d], FromInt(p[d]))]

\* mutant: the factor of the following sample
ScaledRadiusOfNext(r, id, fac) ==
    VScale(At(fac, IF id + 1 < Len(fac) THEN id + 1 ELSE 0), FromInt(r))

\* point_radius of line 246
ScaledRadius(r, id, fac) == VScale(At(fac, id), FromInt(r))

\* get_vtk_array(radiusArrayName, 1, num): num tuples filled with 0.0
GetVtkArray(num) == [x \in 1..num |-> VRat(Zero)]

\* radius_array.SetTuple1(id, value)
SetTuple1(array, id, value) == [array EXCEPT ![id + 1] = value]

RECURSIVE SumPoints(_)
SumPoints(regions) ==
    IF regions = <<>> THEN 0 ELSE Len(regions[1].pts) + SumPoints(Tail(regions))

\* mutant: the branches are not counted
RadiusArraySizeOfMain(cloud, div) == Len(cloud)

\* m of lines 224-227
RadiusArraySize(cloud, div) ==
    IF ~div[1].none THEN Len(cloud) + SumPoints(div) ELSE Len(cloud)

----------------------------------------------------------------------------
(* The inputs explored.                                                    *)

\* names argparse would refuse stand for every name outside the choices
AnyMethod == Methods \cup {"other"}
AnyMode == Modes \cup {"other"}

\* area profile p of a centerline of len samples: flat, a narrowing in the
\* middle, rising, and further uneven ones
Profile(p, len) ==
    AsList([x \in 1..len |->
        CASE p = 1 -> 2
          [] p = 2 -> IF x = (len + 1) \div 2 THEN 1 ELSE 3
          [] p = 3 -> 1 + ((x - 1) * 3) \div len
          [] OTHER -> 1 + ((x * p) % 3)])

Percentages == {-100, 0, 50, 100}
\* the lengths explored with |beta| > 1/2
PowerLengths == 1..5
Betas2 == {-3, -2, -1, 0, 1, 2}
RegionPointLengths == {NoPoints, 3, 4, 6, 9}

NoRatio == [given |-> FALSE, val |-> Zero]
\* ratios: None, a non-positive one, and powers of the current ratio R_old
Ratios(a, exps) ==
    LET R_old == ROld(SmoothTwice(AsList([x \in 1..Len(a) |-> FromInt(a[x])])))
    IN  {NoRatio, [given |-> TRUE, val |-> Zero]}
            \cup {[given |-> TRUE, val |-> RPow(R_old, e)] : e \in exps}

\* point idx of a main Voronoi region around a centerline of len samples
MainPoint(idx, len) ==
    CASE idx = 1 -> [pos |-> <<0, 1>>, r |-> 1]
      [] idx = 2 -> [pos |-> <<1, 2>>, r |-> 2]
      [] idx = 3 -> [pos |-> <<2 * (len \div 2), -1>>, r |-> 3]
      [] idx = 4 -> [pos |-> <<2 * (len - 1) + 3, 1>>, r |-> 1]
      [] OTHER -> [pos |-> <<2 * ((idx * 7) % len), 2>>, r |-> 1 + (idx % 3)]

MainClouds(len, maxPts, shifts) ==
    {AsList([x \in 1..num |-> MainPoint(shift + x, len)]) : num \in 0..maxPts, shift \in shifts}

\* first sample of the centerline of branch b
Attachment(b, len) == <<2 * ((b * 4) % len), 3>>

BranchCloud(b, num, len) ==
    [none |-> FALSE,
     pts |-> AsList([x \in 1..num |->
                [pos |-> <<Attachment(b, len)[1] + x, 3 + x>>, r |-> x + b]])]

NoBranch == [none |-> TRUE, pts |-> <<>>]

\* (diverging_centerline, diverging_voronoi): None with [None] or with an empty
\* region, or one centerline and one Voronoi region per branch; the regions
\* differ in size
Diverging(len, maxBranches, maxBranchPts) ==
    {<<[none |-> TRUE, lines |-> <<>>], <<NoBranch>>>>,
     <<[none |-> TRUE, lines |-> <<>>], <<[none |-> FALSE, pts |-> <<>>]>>>>}
        \cup {<<[none |-> FALSE, lines |-> AsList([b \in 1..num |-> Attachment(b, len)])],
                AsList([b \in 1..num |-> BranchCloud(b, (b + s) % (maxBranchPts + 1), len)])>> :
                  num \in 1..maxBranches, s \in 0..maxBranchPts}

InitWith(lengths, maxProfile, pcts, betas, exps, maxPts, shifts, maxBranches, maxBranchPts) ==
    /\ method \in AnyMethod
    /\ region_of_interest \in AnyMode
    /\ \E len \in lengths, p \in 1..maxProfile :
          /\ area_in = Profile(p, len)
          \* the area array plays no part in method "area" or an unknown method
          /\ method \notin {"variation", "stenosis"} => p = 1
          /\ voronoi \in MainClouds(len, maxPts, shifts)
          /\ \E div \in Diverging(len, maxBranches, maxBranchPts) :
                /\ diverging_centerline = div[1]
                /\ diverging_voronoi = div[2]
    /\ percentage \in pcts \cup {50}
    /\ beta2 \in betas \cup {1}
    /\ region_points \in RegionPointLengths
    \* parameters of another method keep the defaults of read_command_line
    /\ method \notin {"stenosis", "area"} => percentage = 50
    /\ method # "variation" => beta2 = 1
    /\ method # "stenosis" => region_points \in {NoPoints, 6}
    /\ region_of_interest = "other" => method \in {"area", "other"}
    \* a ratio comes with the default beta, the current ratio with beta = 0 too
    /\ IF method = "variation" /\ beta2 = 1
         THEN ratio \in Ratios(area_in, exps)
       ELSE IF method = "variation" /\ beta2 = 0
         THEN ratio \in Ratios(area_in, {1}) \ {[given |-> TRUE, val |-> Zero]}
         ELSE ratio = NoRatio
    \* third and second powers of the areas: only the lengths that keep them in 32 bits
    /\ beta2 \notin -2..1 => Len(area_in) \in PowerLengths
    \* one stenosis point: only the lengths whose sines are representable
    /\ (method = "stenosis" /\ region_points \in {NoPoints, 3}) => Len(area_in) \in SinLengths
    /\ pc = "start"
    /\ err = ""
    /\ steps = {}
    /\ area = <<>>
    /\ k = 0
    /\ trans = <<>>
    /\ factor = <<>>
    /\ m = 0
    /\ i = Unbound
    /\ j = 0
    /\ count = 0
    /\ v2 = <<VRat(Zero), VRat(Zero)>>
    /\ tmp_ids = <<>>
    /\ voronoi_points = <<>>
    /\ radius_array = <<>>
    /\ cell_array = <<>>

\* every length and parameter of get_factor, small Voronoi regions
Init == InitWith(Lengths, MaxProfile, Percentages, Betas2, {-1, 1, 3}, 1, {0}, 1, 1)

\* a few lengths and parameters of get_factor, region points of one or two
\* points, every Voronoi region and branch
InitCloud ==
    /\ InitWith({1, 6, 15}, MaxProfile, {0, 50}, {0}, {1}, MaxPts, {0, 2}, MaxBranches, MaxBranchPts)
    /\ region_points \in {3, 6}

----------------------------------------------------------------------------
(* Actions.                                                                *)

Raise(exception) ==
    /\ pc' = "error"
    /\ err' = exception

\* the condition of lines 378-379: the length of a list of region points that
\* read_command_line refuses
RefusedLength(points) == points # NoPoints /\ (points % 3 # 0 \/ points > 6)

\* read_command_line: argparse refuses a name outside the choices (it exits),
\* then the checks of lines 371-381
ReadCommandLine ==
    /\ pc = "start"
    /\ IF method \notin Methods \/ region_of_interest \notin Modes
         THEN Raise("SystemExit")
       ELSE IF method = "stenosis" /\ region_of_interest = "first_line"
         THEN Raise("ValueError")
       ELSE IF RefusedLength(region_points)
         THEN Raise("ValueError")
       ELSE pc' = "manipulate_area" /\ err' = err
    /\ UNCHANGED <<inputs, region_points, steps, factor_vars, cloud_vars>>

\* get_line_to_change: the region points handed on to change_area; points the
\* user did not give are picked: one or two for a stenosis, two otherwise
ResolvedRegionPoints(meth, points) ==
    IF points # NoPoints THEN {points}
    ELSE IF meth = "stenosis" THEN {3, 6} ELSE {6}

\* manipulate_area up to its call of change_area (lines 45-100)
ManipulateArea ==
    /\ pc = "manipulate_area"
    /\ region_points' \in ResolvedRegionPoints(method, region_points)
    /\ pc' = "change_area"
    /\ UNCHANGED <<inputs, err, steps, factor_vars, cloud_vars>>

\* change_area, called by manipulate_area or directly, calls get_factor (line
\* 216); get_factor reads the area array (line 135)
GetArea ==
    /\ pc \in {"start", "change_area"}
    /\ area' = AsList([x \in 1..N |-> FromInt(area_in[x])])
    /\ steps' = steps \cup {"area"}
    /\ pc' = "smooth"
    /\ UNCHANGED <<inputs, region_points, err, k, trans, factor, cloud_vars>>

\* lines 138-140
Smooth ==
    /\ pc = "smooth"
    /\ area' = SmoothTwice(area)
    /\ steps' = steps \cup {"smooth"}
    /\ pc' = "transition"
    /\ UNCHANGED <<inputs, region_points, err, k, trans, factor, cloud_vars>>

\* lines 142-158
Transition ==
    /\ pc = "transition"
    /\ k' = KOf(region_of_interest, method, N)
    /\ trans' = TransOf(region_of_interest, method, N)
    /\ steps' = steps \cup {"trans"}
    /\ pc' = "factor"
    /\ UNCHANGED <<inputs, region_points, err, area, factor, cloud_vars>>

\* mutant: the quotient of the logarithms is taken without an exception when
\* R_old is 1, as a numpy division would
FactorErrorUncheckedQuotient ==
    CASE method = "variation" /\ ratio.given ->
            IF ratio.val[1] <= 0 THEN "ValueError" ELSE ""
      [] method = "variation" /\ ~ratio.given -> ""
      [] method = "stenosis" ->
            IF region_points = NoPoints THEN "TypeError"
            ELSE IF region_points \in {3, 6} THEN ""
            ELSE "UnboundLocalError"
      [] method = "area" -> ""
      [] OTHER -> "UnboundLocalError"

\* the exception of lines 160-189, "" if the factor is computed
FactorError ==
    CASE method = "variation" /\ ratio.given ->
            IF ratio.val[1] <= 0 THEN "ValueError"                 \* math.log(ratio)
            ELSE IF ROld(area) = One THEN "ZeroDivisionError"     \* / math.log(R_old)
            ELSE ""
      [] method = "variation" /\ ~ratio.given -> ""
      [] method = "stenosis" ->
            IF region_points = NoPoints THEN "TypeError"           \* len(None)
            ELSE IF region_points \in {3, 6} THEN ""
            ELSE "UnboundLocalError"                               \* return factor
      [] method = "area" -> ""
      [] OTHER -> "UnboundLocalError"                              \* return factor

\* factor of lines 160-187
FactorOf ==
    CASE method = "variation" /\ ratio.given ->
            VariationFactor(area, SolvedBeta2(ratio.val, ROld(area)), trans)
      [] method = "variation" /\ ~ratio.given -> VariationFactor(area, beta2, trans)
      [] method = "stenosis" /\ region_points = 3 -> StenosisOnePoint(N, percentage, trans)
      [] method = "stenosis" /\ region_points = 6 -> StenosisTwoPoints(area, trans)
      [] method = "area" -> AreaFactor(percentage, trans)

\* lines 160-189: get_factor returns the factor to change_area, or raises
GetFactor ==
    /\ pc = "factor"
    /\ IF FactorError # ""
         THEN Raise(FactorError) /\ factor' = factor
         ELSE factor' = FactorOf /\ pc' = "setup" /\ err' = err
    /\ UNCHANGED <<inputs, region_points, steps, area, k, trans, cloud_vars>>

\* lines 219-232
Setup ==
    /\ pc = "setup"
    /\ m' = RadiusArraySize(voronoi, diverging_voronoi)
    /\ radius_array' = GetVtkArray(RadiusArraySize(voronoi, diverging_voronoi))
    /\ pc' = "main_loop"
    /\ UNCHANGED <<inputs, region_points, err, steps, factor_vars, i, j, count, v2,
                   tmp_ids, voronoi_points, cell_array>>

\* one iteration of the loop of lines 236-251
MainLoop ==
    /\ pc = "main_loop"
    /\ i + 1 < Len(voronoi)
    /\ LET point == At(voronoi, i + 1)
       IN  \E tmp_id \in FindClosestPoint(point.pos, N) :
              /\ voronoi_points' =
                    Append(voronoi_points, Moved(point.pos, Displacement(point.pos, tmp_id, factor)))
              /\ radius_array' = SetTuple1(radius_array, i + 1, ScaledRadius(point.r, tmp_id, factor))
              /\ cell_array' = Append(cell_array, i + 1)
              /\ tmp_ids' = Append(tmp_ids, tmp_id)
    /\ i' = i + 1
    /\ UNCHANGED <<inputs, region_points, pc, err, steps, factor_vars, m, j, count, v2>>

\* the loop has ended; lines 254-256
BranchStart ==
    /\ pc = "main_loop"
    /\ i + 1 >= Len(voronoi)
    /\ IF diverging_centerline.none
         THEN pc' = "finish" /\ err' = err /\ count' = count
       ELSE IF i = Unbound
         THEN Raise("UnboundLocalError") /\ count' = count       \* count = i + 1
       ELSE pc' = "branch" /\ err' = err /\ count' = i + 1
    /\ j' = 0
    /\ UNCHANGED <<inputs, region_points, steps, factor_vars, m, i, v2, tmp_ids,
                   voronoi_points, radius_array, cell_array>>

\* lines 257-265: the offset of branch j
BranchOffset ==
    /\ pc = "branch"
    /\ j < Len(diverging_voronoi)
    /\ LET point == At(diverging_centerline.lines, j)
       IN  \E tmp_id \in FindClosestPoint(point, N) :
              /\ v2' = Displacement(point, tmp_id, factor)
              /\ tmp_ids' = Append(tmp_ids, tmp_id)
    /\ pc' = "branch_first"
    /\ UNCHANGED <<inputs, region_points, err, steps, factor_vars, m, i, j, count,
                   voronoi_points, radius_array, cell_array>>

\* i of the next iteration of the loop of line 266
NextBranchIndex == IF pc = "branch_first" THEN 0 ELSE i + 1

\* one iteration of the loop of lines 266-274
BranchPoint ==
    /\ pc \in {"branch_first", "branch_next"}
    /\ NextBranchIndex < Len(At(diverging_voronoi, j).pts)
    /\ LET point == At(At(diverging_voronoi, j).pts, NextBranchIndex)
       IN  /\ voronoi_points' = Append(voronoi_points, Moved(point.pos, v2))
           /\ radius_array' = SetTuple1(radius_array, count, VRat(FromInt(point.r)))
           /\ cell_array' = Append(cell_array, count)
    /\ i' = NextBranchIndex
    /\ count' = count + 1
    /\ pc' = "branch_next"
    /\ UNCHANGED <<inputs, region_points, err, steps, factor_vars, m, j, v2, tmp_ids>>

\* the loop of line 266 has ended: the next branch
BranchDone ==
    /\ pc \in {"branch_first", "branch_next"}
    /\ NextBranchIndex >= Len(At(diverging_voronoi, j).pts)
    /\ j' = j + 1
    /\ pc' = "branch"
    /\ UNCHANGED <<inputs, region_points, err, steps, factor_vars, m, i, count, v2,
                   tmp_ids, voronoi_points, radius_array, cell_array>>

\* the loop of line 256 has ended
BranchEnd ==
    /\ pc = "branch"
    /\ j >= Len(diverging_voronoi)
    /\ pc' = "finish"
    /\ UNCHANGED <<inputs, region_points, err, steps, factor_vars, cloud_vars>>

\* lines 276-280: change_area returns new_voronoi
Finish ==
    /\ pc = "finish"
    /\ pc' = "done"
    /\ UNCHANGED <<inputs, region_points, err, steps, factor_vars, cloud_vars>>

Next ==
    \/ ReadCommandLine
    \/ ManipulateArea
    \/ GetArea
    \/ Smooth
    \/ Transition
    \/ GetFactor
    \/ Setup
    \/ MainLoop
    \/ BranchStart
    \/ BranchOffset
    \/ BranchPoint
    \/ BranchDone
    \/ BranchEnd
    \/ Finish

Spec == Init /\ [][Next]_vars

SpecCloud == InitCloud /\ [][Next]_vars

----------------------------------------------------------------------------
(* Properties.                                                             *)

\* get_factor has returned its factor to change_area
FactorReturned ==
    pc \in {"setup", "main_loop", "branch", "branch_first", "branch_next", "finish", "done"}

KnownInputs == method \in Methods /\ region_of_interest \in Modes

\* C1: for every method, every region mode and every centerline length N >= 1,
\* the factor field get_factor returns has exactly N elements, one per sample.
C1_FactorLength ==
    (FactorReturned /\ KnownInputs) => Len(factor) = N /\ DOMAIN factor = 1..N

\* a factor returned for the longest centerline, with a ramp at the trailing end only
C1_Witness ==
    /\ FactorReturned
    /\ N = 101
    /\ method = "stenosis"
    /\ region_of_interest = "first_line"
    /\ Len(factor) = 101

\* C2: every element of the factor field get_factor returns is strictly
\* positive: a computation that yields a non-positive element raises an error
\* instead of returning the field.
C2_FactorPositive ==
    (FactorReturned /\ KnownInputs) => \A x \in 1..Len(factor) : VPositive(factor[x])

\* a position of the input, as the code stores it in the output
AsValues(pos) == <<VRat(FromInt(pos[1])), VRat(FromInt(pos[2]))>>

\* output point x is input point x of the main region, position and radius
MainPointUnchanged(x) ==
    /\ voronoi_points[x] = AsValues(voronoi[x].pos)
    /\ radius_array[x] = VRat(FromInt(voronoi[x].r))

FactorIsOne == \A x \in 1..Len(factor) : factor[x] = VOne

\* C3: with method "area" and percentage = 0 every element of the factor field
\* is 1, and the main cloud change_area returns has the positions and radii of
\* the input cloud, for every region mode and every input cloud.
C3_AreaZeroIdentity ==
    (method = "area" /\ percentage = 0) =>
        /\ FactorReturned => FactorIsOne /\ Len(factor) = N
        /\ pc = "done" =>
              /\ Len(voronoi_points) >= Len(voronoi)
              /\ \A x \in 1..Len(voronoi) : MainPointUnchanged(x)

\* change_area has returned two unchanged points of a centerline with ramps
C3_Witness ==
    /\ pc = "done"
    /\ method = "area"
    /\ percentage = 0
    /\ region_of_interest = "commandline"
    /\ N = 15
    /\ Len(voronoi) = 2
    /\ voronoi_points[2] = AsValues(voronoi[2].pos)

\* C4: with method "variation", beta = 0 and no ratio every element of the
\* factor field is 1 whatever the areas are, and the deformed cloud equals the
\* input cloud.
C4_VariationZeroIdentity ==
    (method = "variation" /\ beta2 = 0 /\ ~ratio.given) =>
        /\ FactorReturned => FactorIsOne /\ Len(factor) = N
        /\ pc = "done" =>
              /\ Len(voronoi_points) >= Len(voronoi)
              /\ \A x \in 1..Len(voronoi) : MainPointUnchanged(x)

\* change_area has returned two unchanged points; the area varies along the centerline
C4_Witness ==
    /\ pc = "done"
    /\ method = "variation"
    /\ beta2 = 0
    /\ ~ratio.given
    /\ \E x \in 1..N : area[x] # area[1]
    /\ Len(voronoi) = 2
    /\ radius_array[2] = VRat(FromInt(voronoi[2].r))

\* id is a sample of the centerline nearest to position p
IsNearest(id, p) ==
    /\ id \in 0..(N - 1)
    /\ \A other \in 0..(N - 1) :
          (p[1] - 2 * id) * (p[1] - 2 * id) <= (p[1] - 2 * other) * (p[1] - 2 * other)

\* the number of main points the loop of line 236 has gone through
MainProcessed ==
    IF pc = "main_loop" THEN i + 1
    ELSE IF pc \in {"branch", "branch_first", "branch_next", "finish", "done"} THEN Len(voronoi)
    ELSE 0

\* C5: for every point of the main cloud, the radius stored at its output index
\* is its input radius times factor[id], id the centerline sample nearest to
\* the point's original position; no other sample's factor scales it.
C5_MainRadius ==
    \A x \in 1..MainProcessed :
        /\ IsNearest(tmp_ids[x], voronoi[x].pos)
        /\ radius_array[x] = VScale(At(factor, tmp_ids[x]), FromInt(voronoi[x].r))

\* change_area has returned a main cloud of two points with a rescaled radius,
\* followed by branch points
C5_Witness ==
    /\ pc = "done"
    /\ Len(voronoi) = 2
    /\ Len(voronoi_points) > 2
    /\ At(factor, tmp_ids[2]) \notin {VOne, NaN}
    /\ radius_array[2] = VScale(At(factor, tmp_ids[2]), FromInt(voronoi[2].r))

\* output index of the point before the first point of branch b
BranchBase(b) == Len(voronoi) + SumPoints(SubSeq(diverging_voronoi, 1, b - 1))

\* the displacement of a branch attached at a whose nearest sample is id
BranchShift(a, id) ==
    [d \in 1..2 |->
        VScale(VLin(At(factor, id), <<-1, 1>>, One), FromInt(2 * id * (2 - d) - a[d]))]

\* C6: all points of a side branch are moved by one and the same displacement,
\* computed once from the branch's attachment point and the factor of the
\* main-centerline sample nearest to it, and keep their radius.
C6_BranchRigid ==
    (pc = "done" /\ ~diverging_centerline.none) =>
        \A b \in 1..Len(diverging_voronoi) :
            LET a == diverging_centerline.lines[b]
                id == tmp_ids[Len(voronoi) + b]
                branch == diverging_voronoi[b].pts
            IN  /\ IsNearest(id, a)
                /\ \A x \in 1..Len(branch) :
                      /\ voronoi_points[BranchBase(b) + x] =
                            [d \in 1..2 |-> VAddRat(BranchShift(a, id)[d], FromInt(branch[x].pos[d]))]
                      /\ radius_array[BranchBase(b) + x] = VRat(FromInt(branch[x].r))

\* change_area has returned two branches, the second of two points, moved by a
\* displacement that is not zero
C6_Witness ==
    /\ pc = "done"
    /\ Len(diverging_voronoi) = 2
    /\ Len(diverging_voronoi[2].pts) = 2
    /\ v2 # <<VRat(Zero), VRat(Zero)>>
    /\ ~v2[1].nan
    /\ voronoi_points[BranchBase(2) + 2] = Moved(diverging_voronoi[2].pts[2].pos, v2)

\* the case of the blending scenario: 101 samples, a constant raw factor other than 1
BlendScenario ==
    /\ N = 101
    /\ method = "area"
    /\ region_of_interest \in {"manual", "commandline"}
    /\ percentage # 0

RawAreaFactor == VRat(RAdd(One, Rat(percentage, 100)))

\* v lies strictly between 1 and the raw factor
StrictlyBetween(v) ==
    \/ VLess(VOne, v) /\ VLess(v, RawAreaFactor)
    \/ VLess(RawAreaFactor, v) /\ VLess(v, VOne)

\* v is strictly nearer to 1 than w, both on the raw factor's side of 1
NearerToOne(v, w) ==
    IF VLess(VOne, RawAreaFactor) THEN VLess(v, w) /\ ~VLess(v, VOne)
    ELSE VLess(w, v) /\ ~VLess(VOne, v)

\* the factor moves toward 1 as the sample approaches either boundary sample
MonotoneTowardBoundary ==
    /\ \A id \in 0..8 : NearerToOne(At(factor, id), At(factor, id + 1))
    /\ \A id \in 91..99 : NearerToOne(At(factor, id + 1), At(factor, id))

\* C7 as stated: each of the first 10 and last 10 of 101 samples has a factor
\* strictly between 1 and the interior raw factor, moving monotonically toward 1
\* as the sample approaches the boundary sample.
C7_AllRampStrictlyBetween ==
    (FactorReturned /\ BlendScenario) =>
        /\ \A id \in (0..9) \cup (91..100) : StrictlyBetween(At(factor, id))
        /\ MonotoneTowardBoundary

\* C7 amended: the boundary samples 0 and 100 have factor exactly 1, samples 9
\* and 91 exactly the raw factor, the eight samples between them at each end a
\* factor strictly between 1 and the raw factor, and the factor moves strictly
\* monotonically toward 1 as the sample approaches the boundary sample.
C7_RampBetweenInclusive ==
    (FactorReturned /\ BlendScenario) =>
        /\ At(factor, 0) = VOne /\ At(factor, 100) = VOne
        /\ At(factor, 9) = RawAreaFactor /\ At(factor, 91) = RawAreaFactor
        /\ \A id \in (1..8) \cup (92..99) : StrictlyBetween(At(factor, id))
        /\ \A id \in 10..90 : At(factor, id) = RawAreaFactor
        /\ MonotoneTowardBoundary

\* the factor of the scenario with percentage = 50: 1 at the boundary, 3/2 inside
C7_Witness ==
    /\ FactorReturned
    /\ BlendScenario
    /\ percentage = 50
    /\ At(factor, 0) = VOne
    /\ StrictlyBetween(At(factor, 95))
    /\ At(factor, 50) = VRat(<<3, 2>>)

\* weight x (0-based) of a linear ramp of num samples from 1 down to 0
RampDown(x, num) == IF num = 1 THEN One ELSE Rat(num - 1 - x, num - 1)
\* weight x (0-based) of a linear ramp of num samples from 0 up to 1
RampUp(x, num) == IF num = 1 THEN Zero ELSE Rat(x, num - 1)

\* num samples are reserved for the ramp at both ends, every other weight is 0
ReservedAtBothEnds(num) ==
    /\ Len(trans) = N
    /\ \A id \in 0..(N - 1) :
          At(trans, id) = IF id < num THEN RampDown(id, num)
                          ELSE IF id >= N - num THEN RampUp(id - (N - num), num)
                          ELSE Zero

\* num samples are reserved for the ramp at the trailing end, every other weight is 0
ReservedAtTrailingEnd(num) ==
    /\ Len(trans) = N
    /\ \A id \in 0..(N - 1) :
          At(trans, id) = IF id >= N - num THEN RampUp(id - (N - num), num) ELSE Zero

\* C8 as stated: for every method, k = round(0.10 * N) samples are reserved for
\* the linear ramp at both ends when the region mode is not "first_line", and at
\* the trailing end only when it is; all other samples have weight 0.
C8_RampForEveryMethod ==
    ("trans" \in steps /\ KnownInputs) =>
        /\ k = Round10(N)
        /\ IF region_of_interest = "first_line"
             THEN ReservedAtTrailingEnd(Round10(N))
             ELSE ReservedAtBothEnds(Round10(N))

\* C8 amended: k = round(0.10 * N) samples are reserved at the trailing end only
\* for region mode "first_line" (every method), at both ends for the methods
\* "area" and "variation" with region mode "manual" or "commandline"; for method
\* "stenosis" with "manual" or "commandline" k = 0 and every weight is 0.
C8_RampByMethod ==
    ("trans" \in steps /\ KnownInputs) =>
        IF region_of_interest = "first_line"
          THEN k = Round10(N) /\ ReservedAtTrailingEnd(Round10(N))
        ELSE IF method = "stenosis"
          THEN k = 0 /\ ReservedAtBothEnds(0)
        ELSE k = Round10(N) /\ ReservedAtBothEnds(Round10(N))

\* a transition array of 101 weights for a stenosis: no ramp
C8_Witness ==
    /\ "trans" \in steps
    /\ N = 101
    /\ method = "stenosis"
    /\ region_of_interest = "manual"
    /\ k = 0
    /\ \A id \in 0..100 : At(trans, id) = Zero

\* the points the branches hand to change_area
BranchPoints == IF diverging_centerline.none THEN 0 ELSE SumPoints(diverging_voronoi)

\* the branch and the place in it of output index x (1-based) beyond the main cloud
BranchOf(x) ==
    CHOOSE b \in 1..Len(diverging_voronoi) :
        BranchBase(b) < x /\ x <= BranchBase(b) + Len(diverging_voronoi[b].pts)

\* C9: the cloud change_area returns has n + (sum of the branch sizes) points:
\* the deformed main points in input order, then the points of each branch, in
\* the order of the branches and in their order within the branch; after every
\* iteration the number of inserted points equals the running counter, so each
\* radius is written at the index of its own point, and the radius array is as
\* long as the cloud.
C9_OutputOrder ==
    /\ pc = "main_loop" => Len(voronoi_points) = i + 1
    /\ pc \in {"branch", "branch_first", "branch_next"} => Len(voronoi_points) = count
    /\ cell_array = [x \in 1..Len(voronoi_points) |-> x - 1]
    /\ pc = "done" =>
          /\ Len(voronoi_points) = Len(voronoi) + BranchPoints
          /\ Len(radius_array) = Len(voronoi_points)
          /\ \A x \in 1..Len(voronoi) :
                /\ voronoi_points[x] =
                      [d \in 1..2 |->
                          VAddRat(VScale(VLin(At(factor, tmp_ids[x]), <<-1, 1>>, One),
                                         FromInt(2 * tmp_ids[x] * (2 - d) - voronoi[x].pos[d])),
                                  FromInt(voronoi[x].pos[d]))]
                /\ radius_array[x] = VScale(At(factor, tmp_ids[x]), FromInt(voronoi[x].r))
          /\ \A x \in (Len(voronoi) + 1)..Len(voronoi_points) :
                LET b == BranchOf(x)
                    point == diverging_voronoi[b].pts[x - BranchBase(b)]
                IN  /\ voronoi_points[x] = Moved(point.pos, BranchShift(diverging_centerline.lines[b],
                                                                         tmp_ids[Len(voronoi) + b]))
                    /\ radius_array[x] = VRat(FromInt(point.r))

\* change_area has returned two main points followed by two branches with points
C9_Witness ==
    /\ pc = "done"
    /\ Len(voronoi) = 2
    /\ Len(diverging_voronoi) = 2
    /\ Len(diverging_voronoi[1].pts) >= 1
    /\ Len(diverging_voronoi[2].pts) >= 1
    /\ Len(voronoi_points) = 2 + SumPoints(diverging_voronoi)
    /\ Len(radius_array) = Len(voronoi_points)

\* C10: a method name outside {variation, stenosis, area} or a region mode
\* outside {manual, commandline, first_line} is rejected with an error before
\* any computation (area extraction, smoothing, transition array).
C10_UnknownNameRejected ==
    (method \notin Methods \/ region_of_interest \notin Modes) =>
        /\ steps = {}
        /\ pc \in {"start", "error"}

\* C11: a region_points list whose length is inconsistent with the method is
\* rejected with an invalid-argument error (a ValueError): for method
\* "stenosis" every length other than 3 and 6 is such an error and no factor is
\* returned, and read_command_line lets no list pass whose length is not a
\* multiple of 3 or exceeds 6.
C11_InconsistentPointsRejected ==
    /\ (method = "stenosis" /\ region_points \notin {NoPoints, 3, 6}) =>
          /\ ~FactorReturned
          /\ pc = "error" => err = "ValueError"
    /\ RefusedLength(region_points) => pc # "manipulate_area"

\* C13: change_area called with an empty centerline (N = 0) or an empty main
\* point cloud (n = 0) never returns a cloud, with or without side branches: it
\* raises an error.
C13_EmptyInputRejected ==
    (N = 0 \/ Len(voronoi) = 0) => pc \notin {"finish", "done"}

\* C14: method "stenosis" with region mode "first_line" never reaches the
\* factor computation: on every path the call ends with a ValueError before
\* get_factor runs.
C14_StenosisFirstLineRejected ==
    (method = "stenosis" /\ region_of_interest = "first_line") =>
        /\ pc \in {"start", "error"}
        /\ "area" \notin steps
        /\ pc = "error" => err = "ValueError"

\* C19: whenever the ramp is not empty (k >= 1) the transition weight is
\* exactly 1 at every blended segment boundary and so is the factor: at the
\* first and the last sample for the methods "area" and "variation" with region
\* mode "manual" or "commandline", at the last sample for "first_line"; also
\* for the lengths with k = 1.
C19_BoundaryWeightOne ==
    ("trans" \in steps /\ KnownInputs /\ k >= 1) =>
        /\ At(trans, N - 1) = One
        /\ BlendsBothEnds(region_of_interest, method) => At(trans, 0) = One
        /\ FactorReturned =>
              /\ At(factor, N - 1) = VOne
              /\ BlendsBothEnds(region_of_interest, method) => At(factor, 0) = VOne

\* the area array as get_factor smooths it, from the input
SmoothedInput == SmoothTwice(AsList([x \in 1..N |-> FromInt(area_in[x])]))

\* the input of the beta solve is degenerate: ratio <= 0 or R_old <= 1
DegenerateRatio ==
    /\ method = "variation"
    /\ ratio.given
    /\ ratio.val[1] <= 0 \/ RLe(ROld(SmoothedInput), One)

\* C12: with method "variation" and a ratio given, a degenerate input of the
\* beta solve (R_old <= 1 or ratio <= 0) ends the call with an error raised in
\* get_factor: no factor is returned and no point, radius or cell of the output
\* cloud is ever built.
C12_DegenerateRatioAborts ==
    DegenerateRatio =>
        /\ ~FactorReturned
        /\ factor = <<>>
        /\ voronoi_points = <<>> /\ radius_array = <<>> /\ cell_array = <<>>
        /\ pc = "error" => err \in {"ValueError", "ZeroDivisionError"} /\ "trans" \in steps

\* get_factor has raised on a flat area array of seven samples: R_old = 1
C12_Witness ==
    /\ pc = "error"
    /\ err = "ZeroDivisionError"
    /\ method = "variation"
    /\ ratio.given
    /\ N = 7
    /\ ROld(area) = One
    /\ voronoi_points = <<>>

\* the offset of position p from centerline sample id, scaled by the factor of
\* the sample and taken from the sample again
ScaledOffset(p, id) ==
    [d \in 1..2 |->
        VAddRat(VScale(At(factor, id), FromInt(p[d] - CenterlinePoint(id)[d])),
                FromInt(CenterlinePoint(id)[d]))]

\* C15: for every point p of the main cloud with nearest centerline sample
\* c = centerline[id] the output position q satisfies q - c = factor[id] * (p - c):
\* the offset from the sample is scaled by the factor that scales the radius,
\* and a factor of 1 leaves the point where it was.
C15_OffsetScaled ==
    \A x \in 1..MainProcessed :
        /\ IsNearest(tmp_ids[x], voronoi[x].pos)
        /\ voronoi_points[x] = ScaledOffset(voronoi[x].pos, tmp_ids[x])
        /\ radius_array[x] = VScale(At(factor, tmp_ids[x]), FromInt(voronoi[x].r))
        /\ At(factor, tmp_ids[x]) = VOne => voronoi_points[x] = AsValues(voronoi[x].pos)

\* change_area has returned the point at distance 1 from sample 0, whose factor
\* is 3/2, at distance 3/2
C15_Witness ==
    /\ pc = "done"
    /\ Len(voronoi) >= 1
    /\ voronoi[1].pos = <<0, 1>>
    /\ tmp_ids[1] = 0
    /\ At(factor, 0) = VRat(<<3, 2>>)
    /\ voronoi_points[1] = <<VRat(Zero), VRat(<<3, 2>>)>>
    /\ radius_array[1] = VRat(<<3, 2>>)

\* the ratio given is the current ratio R_old of the smoothed area, R_old > 1
RatioIsCurrent ==
    /\ method = "variation"
    /\ ratio.given
    /\ ratio.val = ROld(SmoothedInput)
    /\ RLt(One, ROld(SmoothedInput))

\* output point x, beyond the main cloud, is the branch point it was made from
BranchPointUnchanged(x) ==
    LET b == BranchOf(x)
        point == diverging_voronoi[b].pts[x - BranchBase(b)]
    IN  /\ voronoi_points[x] = AsValues(point.pos)
        /\ radius_array[x] = VRat(FromInt(point.r))

\* C16: with method "variation" and a ratio equal to the current ratio
\* R_old = max(area)/min(area) > 1 the solved beta is 0 (the ratio is the first
\* power of R_old of the smoothed area), every element of the factor is 1 and the cloud returned equals the input cloud, whatever beta the
\* caller gave.
C16_CurrentRatioIdentity ==
    RatioIsCurrent =>
        /\ pc = "factor" => RPow(ROld(area), 1) = ratio.val
        /\ FactorReturned => FactorIsOne /\ Len(factor) = N
        /\ pc = "done" =>
              /\ Len(voronoi_points) = Len(voronoi) + BranchPoints
              /\ \A x \in 1..Len(voronoi) : MainPointUnchanged(x)
              /\ \A x \in (Len(voronoi) + 1)..Len(voronoi_points) : BranchPointUnchanged(x)

\* change_area has returned two unchanged main points and a branch point for
\* the current ratio, although the caller's beta is 1/2
C16_Witness ==
    /\ pc = "done"
    /\ RatioIsCurrent
    /\ beta2 = 1
    /\ FactorIsOne
    /\ Len(voronoi) = 2
    /\ Len(voronoi_points) > 2
    /\ MainPointUnchanged(2)
    /\ BranchPointUnchanged(3)

\* the samples whose factor is not blended with 1
Unblended == {x \in 1..Len(trans) : trans[x] = Zero}

\* the square of a value that is rational or a multiple of a square root
Squared(v) == RAdd(RMul(RMul(v.a, v.a), v.q), RMul(v.b, v.b))

\* area_i * factor_i^2
NewArea(x) == RMul(area[x], Squared(factor[x]))

\* the largest element of a set of rationals over the smallest
RatioOfSet(all) ==
    RDiv(CHOOSE v \in all : \A w \in all : RLe(w, v), CHOOSE v \in all : \A w \in all : RLe(v, w))

OldRatio == RatioOfSet({area[x] : x \in Unblended})
NewRatio == RatioOfSet({NewArea(x) : x \in Unblended})

\* get_factor has returned the factor of method "variation" for the beta given
VariationReturned == FactorReturned /\ method = "variation" /\ ~ratio.given

TwoPointStenosis ==
    /\ FactorReturned
    /\ method = "stenosis"
    /\ region_points = 6
    /\ region_of_interest \in {"manual", "commandline"}

\* the area at sample x (1-based) interpolated linearly, by normalized arc
\* length, between the areas of the first and the last sample
TargetArea(x) ==
    IF N = 1 THEN area[1]
    ELSE RAdd(area[1], RMul(RSub(area[N], area[1]), Rat(x - 1, N - 1)))

\* C18: for method "stenosis" with two boundary points (region_points of
\* length 6) and region mode "manual" or "commandline" the resulting area
\* area_i * factor_i^2 is, at every sample, the linear interpolation between
\* the first and the last sample's area by normalized arc length; the factor
\* is exactly 1 at the first and at the last sample.
C18_LinearTargetArea ==
    TwoPointStenosis =>
        /\ \A x \in 1..N : ~factor[x].nan /\ NewArea(x) = TargetArea(x)
        /\ factor[1] = VOne
        /\ factor[N] = VOne

\* the same for centerlines of at least two samples
LinearTargetAreaFromTwoSamples == N >= 2 => C18_LinearTargetArea

====
